---- MODULE Spec2Model ----
(***************************************************************************)
(* A model of the Json library (src/json.h, src/json.cpp): the value       *)
(* classes held through shared pointers (a heap of nodes addressed by      *)
(* identifiers), the serializer, and the recursive-descent Parser with its *)
(* cursor index_.  Texts are sequences of one-character strings.           *)
(***************************************************************************)
EXTENDS Integers, Sequences, FiniteSets, TLC

(***************************************************************************)
(* Bounds of the model.                                                    *)
(***************************************************************************)
\* Fragments concatenated to form one input text of the parser.
MaxToks == 6
\* Calls of make_shared, Array.add and Object.add a caller makes.
MaxCalls == 5

(***************************************************************************)
(* Characters.                                                             *)
(***************************************************************************)
\* json_[json_.size()]: the terminating character operator[] yields there.
NUL == "NUL"
\* What a read past json_.size() yields: anything.
UB == "UB"
\* '\b', which has no escape in this notation.
BS == "BS"

Max(a, b) == IF a >= b THEN a ELSE b
Min(a, b) == IF a <= b THEN a ELSE b

IsSpace(c) == c \in {" ", "\t", "\n", "\r", "\f", "VT"}
Digits == {"0", "1", "2", "3", "4", "5", "6", "7", "8", "9"}
IsDigit(c) == c \in Digits
DigitVal(c) ==
    CASE c = "0" -> 0 [] c = "1" -> 1 [] c = "2" -> 2 [] c = "3" -> 3
      [] c = "4" -> 4 [] c = "5" -> 5 [] c = "6" -> 6 [] c = "7" -> 7
      [] c = "8" -> 8 [] c = "9" -> 9
DigitChar(d) ==
    CASE d = 0 -> "0" [] d = 1 -> "1" [] d = 2 -> "2" [] d = 3 -> "3"
      [] d = 4 -> "4" [] d = 5 -> "5" [] d = 6 -> "6" [] d = 7 -> "7"
      [] d = 8 -> "8" [] d = 9 -> "9"

RECURSIVE Pow10(_)
Pow10(n) == IF n = 0 THEN 1 ELSE 10 * Pow10(n - 1)

RECURSIVE Spaces(_)
Spaces(n) == IF n <= 0 THEN <<>> ELSE <<" ">> \o Spaces(n - 1)

RECURSIVE Flatten(_)
Flatten(ss) == IF ss = <<>> THEN <<>> ELSE Head(ss) \o Flatten(Tail(ss))

(***************************************************************************)
(* Doubles.  The model keeps the decimals of at most six significant       *)
(* digits, on which double equality is decimal equality: sign, mantissa m  *)
(* and number e of fractional digits, value (-1)^neg * m / 10^e, with m    *)
(* not a multiple of ten unless e = 0.                                     *)
(***************************************************************************)
RECURSIVE NormDec(_, _, _)
NormDec(neg, m, e) ==
    IF e > 0 /\ m % 10 = 0 THEN NormDec(neg, m \div 10, e - 1)
    ELSE [neg |-> neg, m |-> m, e |-> e]

RECURSIVE DigitsOf(_)
DigitsOf(n) ==
    IF n < 10 THEN <<DigitChar(n)>> ELSE DigitsOf(n \div 10) \o <<DigitChar(n % 10)>>

RECURSIVE DigitsValue(_, _)
DigitsValue(ds, acc) ==
    IF ds = <<>> THEN acc ELSE DigitsValue(Tail(ds), 10 * acc + DigitVal(Head(ds)))

RECURSIVE PadLeft(_, _)
PadLeft(ds, n) == IF Len(ds) >= n THEN ds ELSE PadLeft(<<"0">> \o ds, n)

RECURSIVE StripZeros(_)
StripZeros(ds) ==
    IF ds # <<>> /\ ds[Len(ds)] = "0" THEN StripZeros(SubSeq(ds, 1, Len(ds) - 1)) ELSE ds

(***************************************************************************)
(* The value classes.  A std::shared_ptr<JsonValue> is an identifier into  *)
(* heap, the sequence of the nodes created so far; nullptr is 0.           *)
(***************************************************************************)
nullptr == 0

JsonNull == [type |-> "Null"]
JsonBoolean(value) == [type |-> "Boolean", value_ |-> value]
JsonNumber(value) == [type |-> "Number", value_ |-> value]
JsonString(value) == [type |-> "String", value_ |-> value]
\* JsonArray() = default: an empty vector.
JsonArray == [type |-> "Array", values_ |-> <<>>]
\* JsonObject() = default: an empty map and an empty key vector.
JsonObject == [type |-> "Object", values_ |-> [k \in {} |-> nullptr], keys_ |-> <<>>]

\* The outcome of a call: a returned value, or the exception thrown.
Ok(v) == [ok |-> TRUE, val |-> v]
Throw(what) == [ok |-> FALSE, what |-> what]

\* The accessors: JsonValue's throw, and each class overrides its own.
\* JsonObject overrides none of them.
asString(heap, id) ==
    IF heap[id].type = "String" THEN Ok(heap[id].value_) ELSE Throw("Not a string")
asNumber(heap, id) ==
    IF heap[id].type = "Number" THEN Ok(heap[id].value_) ELSE Throw("Not a number")
asBoolean(heap, id) ==
    IF heap[id].type = "Boolean" THEN Ok(heap[id].value_) ELSE Throw("Not a boolean")
\* shared_from_this(): the array itself.
asArray(heap, id) ==
    IF heap[id].type = "Array" THEN Ok(id) ELSE Throw("Not an array")
asObject(heap, id) == Throw("Not an object")

\* values_.emplace_back(std::move(value))
JsonArray_add(arr, value) == [arr EXCEPT !.values_ = Append(@, value)]

\* A get that counts index from 1.
JsonArray_get_from1(arr, index) ==
    IF index > 0 /\ index <= Len(arr.values_) THEN Ok(arr.values_[index])
    ELSE Throw("Index out of range")

\* index is a size_t, counted from 0.
JsonArray_get(arr, index) ==
    IF index < Len(arr.values_) THEN Ok(arr.values_[index + 1])
    ELSE Throw("Index out of range")

\* An add that appends the key whether or not the object has it.
JsonObject_add_append(obj, key, value) ==
    [obj EXCEPT
       !.keys_ = Append(@, key),
       !.values_ = [k \in DOMAIN obj.values_ \cup {key} |->
                      IF k = key THEN value ELSE obj.values_[k]]]

\* keys_ grows only when the key is new; values_[key] is (re)assigned.
JsonObject_add(obj, key, value) ==
    [obj EXCEPT
       !.keys_ = IF key \notin DOMAIN obj.values_ THEN Append(@, key) ELSE @,
       !.values_ = [k \in DOMAIN obj.values_ \cup {key} |->
                      IF k = key THEN value ELSE obj.values_[k]]]

JsonObject_get(obj, key) ==
    IF key \in DOMAIN obj.values_ THEN obj.values_[key] ELSE nullptr

(***************************************************************************)
(* The serializer.                                                         *)
(***************************************************************************)
\* oss << value_: the default formatting (%g with six significant digits).
\* Defined on the decimals of at most six significant digits, where it
\* rounds nothing.
JsonNumber_serialize(d) ==
    LET sign == IF d.neg THEN <<"-">> ELSE <<>>
        D == DigitsOf(d.m)
        S == StripZeros(D)
        X == Len(D) - 1 - d.e
        absX == IF X < 0 THEN 0 - X ELSE X
    IN  CASE d.m = 0 -> sign \o <<"0">>
          [] d.m # 0 /\ Len(S) <= 6 /\ X >= 0 - 4 /\ X < 6 /\ d.e = 0 -> sign \o D
          [] d.m # 0 /\ Len(S) <= 6 /\ X >= 0 - 4 /\ X < 6 /\ d.e > 0 ->
                sign \o DigitsOf(d.m \div Pow10(d.e)) \o <<".">>
                     \o PadLeft(DigitsOf(d.m % Pow10(d.e)), d.e)
          [] d.m # 0 /\ Len(S) <= 6 /\ ~(X >= 0 - 4 /\ X < 6) ->
                sign \o <<S[1]>>
                     \o (IF Len(S) > 1 THEN <<".">> \o SubSeq(S, 2, Len(S)) ELSE <<>>)
                     \o <<"e", IF X < 0 THEN "-" ELSE "+">>
                     \o PadLeft(DigitsOf(absX), 2)

\* oss << "\"" << value_ << "\"": the characters as they are.
JsonString_serialize(value) == <<"\"">> \o value \o <<"\"">>

RECURSIVE serialize(_, _, _, _)
RECURSIVE JsonArray_serialize(_, _, _, _, _)
RECURSIVE JsonObject_serialize(_, _, _, _, _)

\* The loop of JsonArray::serialize from element i (counted from 0) on.
JsonArray_serialize(heap, arr, i, indent_level, indent_size) ==
    IF i < Len(arr.values_)
    THEN (IF i > 0 THEN <<",">> ELSE <<>>)
         \o (IF indent_size > 0 THEN <<"\n">> ELSE <<>>)
         \o (IF indent_size > 0 THEN Spaces((indent_level + 1) * indent_size) ELSE <<>>)
         \o serialize(heap, arr.values_[i + 1], indent_level + 1, indent_size)
         \o JsonArray_serialize(heap, arr, i + 1, indent_level, indent_size)
    ELSE (IF indent_size > 0 THEN <<"\n">> \o Spaces(indent_level * indent_size) ELSE <<>>)
         \o <<"]">>

\* The loop of JsonObject::serialize from key i (counted from 0) on.
JsonObject_serialize(heap, obj, i, indent_level, indent_size) ==
    IF i < Len(obj.keys_)
    THEN (IF i > 0 THEN <<",">> ELSE <<>>)
         \o (IF indent_size > 0 THEN <<"\n">> ELSE <<>>)
         \o (IF indent_size > 0 THEN Spaces((indent_level + 1) * indent_size) ELSE <<>>)
         \o <<"\"">> \o obj.keys_[i + 1] \o <<"\"", ":">>
         \o (IF indent_size > 0 THEN <<" ">> ELSE <<>>)
         \o serialize(heap, obj.values_[obj.keys_[i + 1]], indent_level + 1, indent_size)
         \o JsonObject_serialize(heap, obj, i + 1, indent_level, indent_size)
    ELSE (IF indent_size > 0 THEN <<"\n">> \o Spaces(indent_level * indent_size) ELSE <<>>)
         \o <<"}">>

\* The virtual serialize, dispatched on the node's class.
serialize(heap, id, indent_level, indent_size) ==
    LET v == heap[id] IN
    CASE v.type = "Null" -> <<"n", "u", "l", "l">>
      [] v.type = "Boolean" ->
            IF v.value_ THEN <<"t", "r", "u", "e">> ELSE <<"f", "a", "l", "s", "e">>
      [] v.type = "Number" -> JsonNumber_serialize(v.value_)
      [] v.type = "String" -> JsonString_serialize(v.value_)
      [] v.type = "Array" -> <<"[">> \o JsonArray_serialize(heap, v, 0, indent_level, indent_size)
      [] v.type = "Object" -> <<"{">> \o JsonObject_serialize(heap, v, 0, indent_level, indent_size)

(***************************************************************************)
(* The Parser.  A parser state p holds json_ and index_ (counted from 0),  *)
(* the heap the parse allocates in, the exception in flight (what) and the *)
(* value the last call returned (val).  Two fields only observe: rd is the *)
(* largest offset of json_ read so far (-1: none), added[id] the arguments *)
(* of the add calls made on container id, in order.                        *)
(***************************************************************************)
NoError == ""

Parser(json, heap, added) ==
    [json_ |-> json, index_ |-> 0, heap |-> heap, added |-> added,
     rd |-> 0 - 1, what |-> NoError, val |-> nullptr]

Failed(p) == p.what # NoError
throw(p, what) == [p EXCEPT !.what = what]
return(p, val) == [p EXCEPT !.val = val]

size(p) == Len(p.json_)
\* json_[index_]: a character of the text, its terminator at index_ = size().
At(p) ==
    IF p.index_ < size(p) THEN p.json_[p.index_ + 1]
    ELSE IF p.index_ = size(p) THEN NUL ELSE UB
\* The state after the read json_[index_].
Read(p) == [p EXCEPT !.rd = Max(@, p.index_)]
\* index_ += n
Advance(p, n) == [p EXCEPT !.index_ = @ + n]

\* std::make_shared<T>(...): a new node, returned in val.
make_shared(p, node) ==
    [p EXCEPT !.heap = Append(@, node), !.added = Append(@, <<>>),
              !.val = Len(p.heap) + 1]

\* array->add(value) on the heap.
array_add(p, array, value) ==
    [p EXCEPT !.heap[array] = JsonArray_add(@, value),
              !.added[array] = Append(@, value)]

\* obj->add(key, value) on the heap.
obj_add(p, obj, key, value) ==
    [p EXCEPT !.heap[obj] = JsonObject_add(@, key, value),
              !.added[obj] = Append(@, <<key, value>>)]

RECURSIVE skipWhitespace(_)
skipWhitespace(p) ==
    IF p.index_ < size(p)
    THEN IF IsSpace(At(p)) THEN skipWhitespace(Advance(Read(p), 1)) ELSE Read(p)
    ELSE p

\* json_.substr(index_, n), called with index_ <= size().
substr(p, n) == SubSeq(p.json_, p.index_ + 1, Min(p.index_ + n, size(p)))
\* The state after that read.
ReadSubstr(p, n) == [p EXCEPT !.rd = Max(@, Min(p.index_ + n, size(p)) - 1)]

\* The escape table of parseString.
Unescape(escapeChar) ==
    CASE escapeChar = "n" -> "\n"
      [] escapeChar = "t" -> "\t"
      [] escapeChar = "r" -> "\r"
      [] escapeChar = "b" -> BS
      [] escapeChar = "f" -> "\f"
      [] OTHER -> escapeChar

\* The loop of a parseString that takes the end of the text for the closing
\* quote: it returns what it collected where parseString throws.
RECURSIVE parseStringLoop_unterminated(_, _)
parseStringLoop_unterminated(p, oss) ==
    IF p.index_ < size(p)
    THEN IF At(p) = "\"" THEN return(Advance(Read(p), 1), oss)
         ELSE IF At(p) = "\\"
         THEN IF p.index_ + 1 < size(p)
              THEN parseStringLoop_unterminated(Advance(Read(Advance(Read(p), 1)), 1),
                                                Append(oss, Unescape(p.json_[p.index_ + 2])))
              ELSE parseStringLoop_unterminated(Advance(Read(p), 2), oss)
         ELSE parseStringLoop_unterminated(Advance(Read(p), 1), Append(oss, At(p)))
    ELSE return(p, oss)

\* The while loop of parseString; oss is the text collected so far.
RECURSIVE parseStringLoop(_, _)
parseStringLoop(p, oss) ==
    IF p.index_ < size(p)
    THEN LET c == At(p)
             q == Read(p)
         IN  IF c = "\"" THEN return(Advance(q, 1), oss)
             ELSE IF c = "\\"
             THEN LET e == Advance(q, 1) IN
                  IF e.index_ < size(e)
                  THEN parseStringLoop(Advance(Read(e), 1), Append(oss, Unescape(At(e))))
                  ELSE parseStringLoop(Advance(e, 1), oss)
             ELSE parseStringLoop(Advance(q, 1), Append(oss, c))
    ELSE throw(p, "Unexpected end of string")

parseString(p) ==
    IF At(p) # "\"" THEN throw(Read(p), "Expected '\"' at start of string")
    ELSE parseStringLoop(Advance(Read(p), 1), <<>>)

\* The while loop of parseNumber: the run of digits, '.', '-' and '+'.
RECURSIVE parseNumberLoop(_)
parseNumberLoop(p) ==
    IF p.index_ < size(p)
    THEN IF IsDigit(At(p)) \/ At(p) \in {".", "-", "+"}
         THEN parseNumberLoop(Advance(Read(p), 1)) ELSE Read(p)
    ELSE p

\* The longest prefix of s made of digits.
RECURSIVE DigitRun(_)
DigitRun(s) ==
    IF s # <<>> /\ IsDigit(Head(s)) THEN <<Head(s)>> \o DigitRun(Tail(s)) ELSE <<>>

\* std::stod on a run of digits, '.', '-' and '+': the longest prefix that is
\* a decimal (an optional sign, then digits holding at most one '.' and at
\* least one digit) is converted and the rest ignored; with no such prefix it
\* throws std::invalid_argument.
stod(numberStr) ==
    LET signed == numberStr # <<>> /\ Head(numberStr) \in {"-", "+"}
        body == IF signed THEN Tail(numberStr) ELSE numberStr
        ip == DigitRun(body)
        rest == SubSeq(body, Len(ip) + 1, Len(body))
        fp == IF rest # <<>> /\ Head(rest) = "." THEN DigitRun(Tail(rest)) ELSE <<>>
    IN  IF ip = <<>> /\ fp = <<>> THEN Throw("stod")
        ELSE Ok(NormDec(signed /\ Head(numberStr) = "-",
                        DigitsValue(ip \o fp, 0), Len(fp)))

\* The conversion of the run q has consumed since index_ was start.
parseNumberEnd(q, d) == IF d.ok THEN return(q, d.val) ELSE throw(q, d.what)
parseNumberRun(q, start) ==
    parseNumberEnd(q, stod(SubSeq(q.json_, start + 1, q.index_)))

parseNumber(p) == parseNumberRun(parseNumberLoop(p), p.index_)

parseBoolean(p) ==
    IF substr(p, 4) = <<"t", "r", "u", "e">>
    THEN return(Advance(ReadSubstr(p, 4), 4), TRUE)
    ELSE IF substr(p, 5) = <<"f", "a", "l", "s", "e">>
    THEN return(Advance(ReadSubstr(p, 5), 5), FALSE)
    ELSE throw(ReadSubstr(p, 5), "Expected 'true' or 'false'")

parseNull(p) ==
    IF substr(p, 4) = <<"n", "u", "l", "l">>
    THEN Advance(ReadSubstr(p, 4), 4)
    ELSE throw(ReadSubstr(p, 4), "Expected 'null'")

\* std::make_shared<JsonString>(parseString()) and its like: the node is made
\* of what the parse function returned, unless it threw.
makeString(s) == IF Failed(s) THEN s ELSE make_shared(s, JsonString(s.val))
makeNumber(n) == IF Failed(n) THEN n ELSE make_shared(n, JsonNumber(n.val))
makeBoolean(b) == IF Failed(b) THEN b ELSE make_shared(b, JsonBoolean(b.val))
makeNull(n) == IF Failed(n) THEN n ELSE make_shared(n, JsonNull)

RECURSIVE parseValue(_)
RECURSIVE parseObjectLoop(_, _)
RECURSIVE parseArrayLoop(_, _)

\* parseObject after a value was added: s2 is the state after the read of
\* json_[index_] that follows skipWhitespace().
parseObjectSeparator(s2, obj) ==
    IF At(s2) = "," THEN parseObjectLoop(skipWhitespace(Advance(s2, 1)), obj)
    ELSE IF At(s2) # "}" THEN throw(s2, "Expected ',' or '}' in object")
    ELSE parseObjectLoop(skipWhitespace(s2), obj)

\* parseObject after parseValue() returned v for key.
parseObjectValue(v, key, obj) ==
    IF Failed(v) THEN v
    ELSE parseObjectSeparator(Read(skipWhitespace(obj_add(v, obj, key, v.val))), obj)

\* parseObject after the key and skipWhitespace().
parseObjectColon(s1, key, obj) ==
    IF At(s1) # ":" THEN throw(Read(s1), "Expected ':' after key")
    ELSE parseObjectValue(parseValue(Advance(Read(s1), 1)), key, obj)

\* parseObject after parseString() returned k.
parseObjectKey(k, obj) ==
    IF Failed(k) THEN k ELSE parseObjectColon(skipWhitespace(k), k.val, obj)

\* The while loop of parseObject, entered at its condition.
parseObjectLoop(p, obj) ==
    IF p.index_ < size(p) /\ At(p) # "}" THEN parseObjectKey(parseString(Read(p)), obj)
    ELSE IF p.index_ < size(p) THEN Read(p) ELSE p

\* parseObject after its loop.
parseObjectEnd(q, obj) ==
    IF Failed(q) THEN q
    ELSE IF q.index_ >= size(q) THEN throw(q, "Expected '}' at end of object")
    ELSE IF At(q) # "}" THEN throw(Read(q), "Expected '}' at end of object")
    ELSE return(Advance(Read(q), 1), obj)

\* parseObject after obj was made.
parseObjectBody(o) == parseObjectEnd(parseObjectLoop(skipWhitespace(o), o.val), o.val)

parseObject(p) == parseObjectBody(make_shared(Advance(p, 1), JsonObject))

\* parseArray after a value was added: s2 is the state after the read of
\* json_[index_] that follows skipWhitespace().
parseArraySeparator(s2, array) ==
    IF At(s2) = "," THEN parseArrayLoop(skipWhitespace(Advance(s2, 1)), array)
    ELSE IF At(s2) # "]" THEN throw(s2, "Expected ',' or ']' in array")
    ELSE parseArrayLoop(skipWhitespace(s2), array)

\* parseArray after parseValue() returned v.
parseArrayValue(v, array) ==
    IF Failed(v) THEN v
    ELSE parseArraySeparator(Read(skipWhitespace(array_add(v, array, v.val))), array)

\* The while loop of parseArray, entered at its condition.
parseArrayLoop(p, array) ==
    IF p.index_ < size(p) /\ At(p) # "]" THEN parseArrayValue(parseValue(Read(p)), array)
    ELSE IF p.index_ < size(p) THEN Read(p) ELSE p

\* The end of a parseArray that does not look for the closing bracket.
parseArrayEnd_unchecked(q, array) ==
    IF Failed(q) THEN q ELSE return(Advance(q, 1), array)

\* parseArray after its loop.
parseArrayEnd(q, array) ==
    IF Failed(q) THEN q
    ELSE IF q.index_ >= size(q) THEN throw(q, "Expected ']' at end of array")
    ELSE IF At(q) # "]" THEN throw(Read(q), "Expected ']' at end of array")
    ELSE return(Advance(Read(q), 1), array)

\* parseArray after array was made.
parseArrayBody(a) == parseArrayEnd(parseArrayLoop(skipWhitespace(a), a.val), a.val)

parseArray(p) == parseArrayBody(make_shared(Advance(p, 1), JsonArray))

\* parseValue on the character c = json_[index_], read in r.
parseValueAt(c, r) ==
    IF c = "{" THEN parseObject(r)
    ELSE IF c = "[" THEN parseArray(r)
    ELSE IF c = "\"" THEN makeString(parseString(r))
    ELSE IF IsDigit(c) \/ c = "-" \/ c = "+" THEN makeNumber(parseNumber(r))
    ELSE IF c = "t" \/ c = "f" THEN makeBoolean(parseBoolean(r))
    ELSE IF c = "n" THEN makeNull(parseNull(r))
    ELSE throw(r, "Unexpected character in JSON input")

\* parseValue after skipWhitespace().
parseValueStart(q) ==
    IF q.index_ >= size(q) THEN throw(q, "Unexpected end of input")
    ELSE parseValueAt(At(q), Read(q))

parseValue(p) == parseValueStart(skipWhitespace(p))

\* parse after parseValue() returned value and skipWhitespace().
parseEnd(q, value) ==
    IF q.index_ < size(q) THEN throw(q, "Unexpected characters after JSON value")
    ELSE return(q, value)

\* parse after parseValue() returned v.
parseValueEnd(v) == IF Failed(v) THEN v ELSE parseEnd(skipWhitespace(v), v.val)

parse(p) == parseValueEnd(parseValue(skipWhitespace(p)))

(***************************************************************************)
(* The state.  heap and added are as in a parser state.  ret is the last   *)
(* call made and its outcome: op its name, self the value it was made on,  *)
(* arg its argument, res what it returned or threw, and parser the fields  *)
(* json_, index_ and rd of the Parser the call was made on (a Parser is a  *)
(* temporary of the call).                                                 *)
(***************************************************************************)
VARIABLES heap, added, ret

vars == <<heap, added, ret>>

NoParser == [json_ |-> <<>>, index_ |-> 0, rd |-> 0 - 1]
Call(op, self, arg, res) ==
    [op |-> op, self |-> self, arg |-> arg, res |-> res, parser |-> NoParser]
NoCall == Call("none", nullptr, 0, Ok(0))

Ids == 1..Len(heap)
ArrayIds == {id \in Ids : heap[id].type = "Array"}
ObjectIds == {id \in Ids : heap[id].type = "Object"}

\* The values a container holds, with the slot of each.
Slots(h, c) ==
    IF h[c].type = "Array" THEN {<<i, h[c].values_[i]>> : i \in DOMAIN h[c].values_}
    ELSE IF h[c].type = "Object" THEN {<<k, h[c].values_[k]>> : k \in DOMAIN h[c].values_}
    ELSE {}
Children(h, c) == {s[2] : s \in Slots(h, c)}

\* The values reachable from the values of S through containment, S included.
RECURSIVE Reach(_, _)
Reach(h, S) ==
    LET T == S \cup UNION {Children(h, c) : c \in S} IN
    IF T = S THEN S ELSE Reach(h, T)

\* Whether no container at or below id contains itself, directly or not.
Acyclic(h, id) == \A c \in Reach(h, {id}) : c \notin Reach(h, Children(h, c))

\* What parse() leaves, p being the parser state it ends in.  A parse that
\* throws leaves nothing behind: the nodes it made go with their last shared
\* pointer.
ParseOutcome(p, of, w) ==
    /\ ret' = [op |-> "parse", self |-> of, arg |-> w,
               res |-> IF Failed(p) THEN Throw(p.what) ELSE Ok(p.val),
               parser |-> [json_ |-> p.json_, index_ |-> p.index_, rd |-> p.rd]]
    /\ heap' = IF Failed(p) THEN heap ELSE p.heap
    /\ added' = IF Failed(p) THEN added ELSE p.added

\* Parser parser(json); parser.parse(), on a text serialized from value of
\* (nullptr: a text of the caller's) with indent_size w.
DoParse(json, of, w) == ParseOutcome(parse(Parser(json, heap, added)), of, w)

(***************************************************************************)
(* The parser on its own: a Parser is made on a text and parse() is called *)
(* once.  The texts are the concatenations of at most MaxToks fragments of *)
(* one family.                                                             *)
(***************************************************************************)
KeyA == <<"\"", "a", "\"">>

ObjectFragments == {<<"{">>, <<"}">>, KeyA, <<":">>, <<",">>}
ArrayFragments == {<<"[">>, <<"]">>, <<",">>, <<"1">>, <<" ">>}
NestingFragments == {<<"[">>, <<"]">>, <<"{">>, <<"}">>, <<",">>}
NumberFragments == {<<"1">>, <<"0">>, <<".">>, <<"-">>, <<"+">>}
StringFragments == {<<"\"">>, <<"\\">>, <<"n">>, <<"a">>, <<"{">>}
LiteralFragments ==
    {<<"t", "r", "u">>, <<"f", "a", "l", "s">>, <<"e">>, <<"n", "u", "l">>, <<"l">>}
Families ==
    {ObjectFragments, ArrayFragments, NestingFragments, NumberFragments,
     StringFragments, LiteralFragments}

\* Parser parser(json)
InitParse ==
    /\ heap = <<>>
    /\ added = <<>>
    /\ \E F \in Families : \E n \in 0..MaxToks : \E ts \in [1..n -> F] :
          ret = [op |-> "Parser", self |-> nullptr, arg |-> 0, res |-> Ok(0),
                 parser |-> [json_ |-> Flatten(ts), index_ |-> 0, rd |-> 0 - 1]]

\* parser.parse()
Parse ==
    /\ ret.op = "Parser"
    /\ DoParse(ret.parser.json_, nullptr, 0)

NextParse == Parse

SpecParse == InitParse /\ [][NextParse]_vars

(***************************************************************************)
(* The kinds of failure, by the message of the exception thrown.  "stod"   *)
(* is the std::invalid_argument of the conversion.                         *)
(***************************************************************************)
ErrorKind(what) ==
    CASE what \in {"Not a string", "Not a number", "Not a boolean", "Not an array",
                   "Not an object"} -> "TypeMismatch"
      [] what = "Index out of range" -> "IndexOutOfRange"
      [] what \in {"Unexpected end of input", "Unexpected end of string"} ->
            "UnexpectedEndOfInput"
      [] what \in {"Expected ':' after key", "Expected ',' or '}' in object",
                   "Expected '}' at end of object", "Expected ',' or ']' in array",
                   "Expected ']' at end of array", "Expected '\"' at start of string"} ->
            "ExpectedToken"
      [] what \in {"Expected 'true' or 'false'", "Expected 'null'",
                   "Unexpected character in JSON input"} -> "UnrecognizedLiteral"
      [] what = "stod" -> "NumericConversionFailure"
      [] what = "Unexpected characters after JSON value" -> "TrailingCharacters"

\* The call parse() has been made and threw an exception of this kind.
ParseFailedWith(kind) ==
    ret.op = "parse" /\ ~ret.res.ok /\ ErrorKind(ret.res.what) = kind

(***************************************************************************)
(* The grammar of the texts, as a recognizer that is no part of the        *)
(* Parser: value := object | array | string | number | boolean | null,     *)
(* number := [sign] digit+ ['.' digit+], whitespace between tokens.  A     *)
(* position i is the index of the next character, Len + 1 at the end of    *)
(* the text.  A recognizer yields the position after what it recognized,   *)
(* Bad where the text departs from the grammar, and OpenArray where the    *)
(* text ends inside an array: after its '[', after an element or after a   *)
(* ','.  With tc, a ',' may precede the '}' of an object.                  *)
(***************************************************************************)
Bad == 0 - 1
OpenArray == 0 - 2

GWhitespace == {" ", "\t", "\r", "\n"}

RECURSIVE GSkip(_, _)
GSkip(s, i) ==
    IF i >= 1 /\ i <= Len(s) /\ s[i] \in GWhitespace THEN GSkip(s, i + 1) ELSE i

RECURSIVE GChars(_, _)
GChars(s, i) ==
    IF i > Len(s) THEN Bad
    ELSE IF s[i] = "\"" THEN i + 1
    ELSE IF s[i] = "\\" THEN (IF i + 1 > Len(s) THEN Bad ELSE GChars(s, i + 2))
    ELSE GChars(s, i + 1)

GString(s, i) == IF i <= Len(s) /\ s[i] = "\"" THEN GChars(s, i + 1) ELSE Bad

RECURSIVE GDigits(_, _)
GDigits(s, i) == IF i <= Len(s) /\ IsDigit(s[i]) THEN GDigits(s, i + 1) ELSE i

GDigits1(s, i) == IF i <= Len(s) /\ IsDigit(s[i]) THEN GDigits(s, i + 1) ELSE Bad

GFraction(s, i) ==
    IF i = Bad THEN Bad
    ELSE IF i <= Len(s) /\ s[i] = "." THEN GDigits1(s, i + 1)
    ELSE i

GNumber(s, i) ==
    GFraction(s, GDigits1(s, IF i <= Len(s) /\ s[i] \in {"-", "+"} THEN i + 1 ELSE i))

GLiteral(s, i, lit) ==
    IF i + Len(lit) - 1 <= Len(s) /\ SubSeq(s, i, i + Len(lit) - 1) = lit
    THEN i + Len(lit) ELSE Bad

RECURSIVE GValue(_, _, _)
RECURSIVE GMember(_, _, _, _)
RECURSIVE GElement(_, _, _, _)

\* After a member's value and whitespace.
GAfterMember(s, i, tc) ==
    IF i < 1 THEN i
    ELSE IF i > Len(s) THEN Bad
    ELSE IF s[i] = "}" THEN i + 1
    ELSE IF s[i] = "," THEN GMember(s, GSkip(s, i + 1), tc, tc)
    ELSE Bad

\* After a member's key and whitespace.
GColon(s, i, tc) ==
    IF i < 1 THEN i
    ELSE IF i <= Len(s) /\ s[i] = ":"
    THEN GAfterMember(s, GSkip(s, GValue(s, GSkip(s, i + 1), tc)), tc)
    ELSE Bad

\* A member, or the '}' where the object may close.
GMember(s, i, tc, closable) ==
    IF i <= Len(s) /\ s[i] = "}" THEN (IF closable THEN i + 1 ELSE Bad)
    ELSE GColon(s, GSkip(s, GString(s, i)), tc)

\* After an element and whitespace.
GAfterElement(s, i, tc) ==
    IF i < 1 THEN i
    ELSE IF i > Len(s) THEN OpenArray
    ELSE IF s[i] = "]" THEN i + 1
    ELSE IF s[i] = "," THEN GElement(s, GSkip(s, i + 1), tc, FALSE)
    ELSE Bad

\* An element, or the ']' where the array may close.
GElement(s, i, tc, closable) ==
    IF i > Len(s) THEN OpenArray
    ELSE IF s[i] = "]" THEN (IF closable THEN i + 1 ELSE Bad)
    ELSE GAfterElement(s, GSkip(s, GValue(s, i, tc)), tc)

GValue(s, i, tc) ==
    IF i > Len(s) THEN Bad
    ELSE IF s[i] = "{" THEN GMember(s, GSkip(s, i + 1), tc, TRUE)
    ELSE IF s[i] = "[" THEN GElement(s, GSkip(s, i + 1), tc, TRUE)
    ELSE IF s[i] = "\"" THEN GString(s, i)
    ELSE IF IsDigit(s[i]) \/ s[i] \in {"-", "+"} THEN GNumber(s, i)
    ELSE IF s[i] = "t" THEN GLiteral(s, i, <<"t", "r", "u", "e">>)
    ELSE IF s[i] = "f" THEN GLiteral(s, i, <<"f", "a", "l", "s", "e">>)
    ELSE IF s[i] = "n" THEN GLiteral(s, i, <<"n", "u", "l", "l">>)
    ELSE Bad

\* The text is one value of the grammar.
Grammatical(s, tc) == GSkip(s, GValue(s, GSkip(s, 1), tc)) = Len(s) + 1

\* The text is grammatical but for commas that precede the '}' of an object.
TrailingComma(s) == Grammatical(s, TRUE) /\ ~Grammatical(s, FALSE)

\* The text ends while an array is open: after '[' and complete elements,
\* with or without a pending comma.
OpenArrayAtEnd(s) == GValue(s, GSkip(s, 1), FALSE) = OpenArray

\* The text is one run of the characters parseNumber consumes, entered from
\* parseValue.
NumberChars == Digits \cup {".", "-", "+"}
IsRun(s) ==
    /\ s # <<>>
    /\ s[1] \in Digits \cup {"-", "+"}
    /\ \A i \in DOMAIN s : s[i] \in NumberChars
\* The run has the form [sign] digit+ ['.' digit+].
IsNumber(s) == GNumber(s, 1) = Len(s) + 1

(***************************************************************************)
(* Properties of the parser (SpecParse).                                   *)
(***************************************************************************)
\* C3: a text that is grammatical but for a ',' before the closing '}' of an
\* object, such as {"a":"a",}, makes parse fail with ExpectedToken and
\* return no value.
TrailingCommaRejected ==
    ret.op = "parse" /\ TrailingComma(ret.parser.json_) => ParseFailedWith("ExpectedToken")

\* C4: a text that is one run of digits, '.', '-' and '+' not of the form
\* [sign] digit+ ['.' digit+], such as 1-1 or 1., makes parse fail with
\* NumericConversionFailure; no number is built from a part of the run.
MalformedNumberRejected ==
    ret.op = "parse" /\ IsRun(ret.parser.json_) /\ ~IsNumber(ret.parser.json_)
        => ParseFailedWith("NumericConversionFailure")

\* C5 as stated: a text that ends while an array is open makes parse fail
\* with UnexpectedEndOfInput.
OpenArrayIsUnexpectedEnd ==
    ret.op = "parse" /\ OpenArrayAtEnd(ret.parser.json_)
        => ParseFailedWith("UnexpectedEndOfInput")

\* C5, amended: a text that ends while an array is open (after '[', after an
\* element or after a ',') makes parse fail with ExpectedToken: the missing
\* ']' or ',' is what the exception names.
OpenArrayIsExpectedToken ==
    ret.op = "parse" /\ OpenArrayAtEnd(ret.parser.json_)
        => ParseFailedWith("ExpectedToken")

\* parse() was called on a text that ends after '[', an element that is an
\* array, and a ','.
OpenArrayParsed ==
    /\ ret.op = "parse"
    /\ OpenArrayAtEnd(ret.parser.json_)
    /\ Len(ret.parser.json_) >= 4
    /\ ret.parser.json_[2] = "["
    /\ ret.parser.json_[Len(ret.parser.json_)] = ","
    /\ ~ret.res.ok

\* C10: whatever the text, every character parse() has read is at an offset
\* of at most the length of the text, and the cursor is beyond the end of the
\* text only when parse() threw.
ReadsWithinText ==
    ret.op = "parse" =>
        /\ ret.parser.rd <= Len(ret.parser.json_)
        /\ (ret.parser.index_ > Len(ret.parser.json_) => ~ret.res.ok)

\* parse() was called on a text that ends with a backslash in a string, and
\* left the cursor beyond the end of the text.
CursorPastEnd ==
    /\ ret.op = "parse"
    /\ ret.parser.json_ # <<>>
    /\ ret.parser.json_[Len(ret.parser.json_)] = "\\"
    /\ ret.parser.index_ > Len(ret.parser.json_)
    /\ ret.parser.rd < Len(ret.parser.json_)

(***************************************************************************)
(* The library in a caller's hands: values are made, put into containers,  *)
(* read and serialized, and texts are parsed.                              *)
(***************************************************************************)
Dec(neg, m, e) == [neg |-> neg, m |-> m, e |-> e]
NumVals == {Dec(TRUE, 15, 1)}
StrVals == {<<",", "\"", ",">>}
KeyVals == {<<"a">>, <<"b">>}
Leaves ==
    {JsonNull, JsonBoolean(TRUE)} \cup {JsonNumber(d) : d \in NumVals}
        \cup {JsonString(s) : s \in StrVals}

\* Texts a caller parses.
Samples ==
    { <<"{", "\"", "a", "\"", ":", "1", ",", "\"", "b", "\"", ":", "2", ",",
        "\"", "a", "\"", ":", "3", "}">>,
      <<"[", "n", "u", "l", "l", ",", "n", "u", "l", "l", "]">>,
      <<"[", "[", "]", ",", "{", "}", "]">>,
      <<"{", "\"", "a", "\"", ":", "[", "]", "}">>,
      <<"[", "1", ",">> }

RECURSIVE SumLen(_)
SumLen(ss) == IF ss = <<>> THEN 0 ELSE Len(Head(ss)) + SumLen(Tail(ss))
\* The make_shared and add calls made so far, the parser's included.
CallCount == Len(heap) + SumLen(added)

Init ==
    /\ heap = <<>>
    /\ added = <<>>
    /\ ret = NoCall

\* A call that only reads leaves heap and added as they are, so the calls
\* that can follow it are those of the state it was made in, with the same
\* outcomes: the model makes every call from a state that no read has led to.
\* A run ends with the parse of a serialized text.
Reads ==
    {"Array.get", "Object.get", "asString", "asNumber", "asBoolean", "asArray",
     "asObject", "serialize"}
AfterRead == ret.op \in Reads \/ (ret.op = "parse" /\ ret.self # nullptr)

\* std::make_shared<T>(...) by the caller.
New(node) ==
    /\ ~AfterRead
    /\ CallCount < MaxCalls
    /\ heap' = Append(heap, node)
    /\ added' = Append(added, <<>>)
    /\ ret' = Call("new", Len(heap) + 1, 0, Ok(Len(heap) + 1))

\* array->add(value): any value the caller holds, the array itself included.
ArrayAdd(array, value) ==
    /\ ~AfterRead
    /\ CallCount < MaxCalls
    /\ heap' = [heap EXCEPT ![array] = JsonArray_add(@, value)]
    /\ added' = [added EXCEPT ![array] = Append(@, value)]
    /\ ret' = Call("Array.add", array, value, Ok(0))

\* obj->add(key, value)
ObjectAdd(obj, key, value) ==
    /\ ~AfterRead
    /\ CallCount < MaxCalls
    /\ heap' = [heap EXCEPT ![obj] = JsonObject_add(@, key, value)]
    /\ added' = [added EXCEPT ![obj] = Append(@, <<key, value>>)]
    /\ ret' = Call("Object.add", obj, <<key, value>>, Ok(0))

\* array->get(index)
ArrayGet(array, index) ==
    /\ ~AfterRead
    /\ ret' = Call("Array.get", array, index, JsonArray_get(heap[array], index))
    /\ UNCHANGED <<heap, added>>

\* obj->get(key)
ObjectGet(obj, key) ==
    /\ ~AfterRead
    /\ ret' = Call("Object.get", obj, key, Ok(JsonObject_get(heap[obj], key)))
    /\ UNCHANGED <<heap, added>>

\* value->asString(), asNumber(), asBoolean(), asArray(), asObject()
Access(id) ==
    /\ ~AfterRead
    /\ \/ ret' = Call("asString", id, 0, asString(heap, id))
       \/ ret' = Call("asNumber", id, 0, asNumber(heap, id))
       \/ ret' = Call("asBoolean", id, 0, asBoolean(heap, id))
       \/ ret' = Call("asArray", id, 0, asArray(heap, id))
       \/ ret' = Call("asObject", id, 0, asObject(heap, id))
    /\ UNCHANGED <<heap, added>>

\* value->serialize(0, indent_size).  On a value that contains itself the
\* recursion never returns; the call is modelled where it does.
Serialize(id, indent_size) ==
    /\ ~AfterRead
    /\ Acyclic(heap, id)
    /\ ret' = Call("serialize", id, indent_size, Ok(serialize(heap, id, 0, indent_size)))
    /\ UNCHANGED <<heap, added>>

\* Parser(text).parse() on the text just serialized.
ParseBack ==
    /\ ret.op = "serialize"
    /\ DoParse(ret.res.val, ret.self, ret.arg)

\* Parser(json).parse() on a text of the caller's.
ParseSample(json) ==
    /\ ~AfterRead
    /\ CallCount < MaxCalls
    /\ DoParse(json, nullptr, 0)

\* Values of every class, read through the accessors, serialized and parsed
\* back.
Next ==
    \/ \E node \in Leaves \cup {JsonArray, JsonObject} : New(node)
    \/ \E array \in ArrayIds, value \in Ids : ArrayAdd(array, value)
    \/ \E obj \in ObjectIds, key \in KeyVals, value \in Ids : ObjectAdd(obj, key, value)
    \/ \E id \in Ids : Access(id)
    \/ \E id \in Ids, indent_size \in {0, 2} : Serialize(id, indent_size)
    \/ ParseBack

Spec == Init /\ [][Next]_vars

\* The containers: values are added, by the caller and by the parser, and
\* read back.
NextBuild ==
    \/ \E node \in {JsonNull, JsonArray, JsonObject} : New(node)
    \/ \E array \in ArrayIds, value \in Ids : ArrayAdd(array, value)
    \/ \E obj \in ObjectIds, key \in KeyVals, value \in Ids : ObjectAdd(obj, key, value)
    \/ \E array \in ArrayIds : \E index \in 0..(Len(heap[array].values_) + 1) : ArrayGet(array, index)
    \/ \E obj \in ObjectIds, key \in KeyVals : ObjectGet(obj, key)
    \/ \E json \in Samples : ParseSample(json)

SpecBuild == Init /\ [][NextBuild]_vars

(***************************************************************************)
(* Properties of the values (Spec, SpecBuild).                             *)
(***************************************************************************)
\* Structural equality of the value a of heap h1 and the value b of heap h2:
\* the same class, the same payload, equal elements in the same order, the
\* same keys in the same order with equal values.
RECURSIVE Equal(_, _, _, _)
Equal(h1, a, h2, b) ==
    LET x == h1[a]
        y == h2[b]
    IN  /\ x.type = y.type
        /\ CASE x.type = "Array" ->
                    /\ Len(x.values_) = Len(y.values_)
                    /\ \A i \in DOMAIN x.values_ :
                          Equal(h1, x.values_[i], h2, y.values_[i])
             [] x.type = "Object" ->
                    /\ x.keys_ = y.keys_
                    /\ DOMAIN x.values_ = DOMAIN y.values_
                    /\ \A k \in DOMAIN x.values_ :
                          Equal(h1, x.values_[k], h2, y.values_[k])
             [] OTHER -> x = y

\* C1: parsing the compact serialization of a value (strings that hold a
\* quote included) succeeds and yields a value structurally equal to it.
RoundTrip ==
    ret.op = "parse" /\ ret.self # nullptr /\ ret.arg = 0
        => ret.res.ok /\ Equal(heap, ret.self, heap, ret.res.val)

\* The outcome in ret is the outcome p of another parse: both threw, or both
\* returned and the values are structurally equal.
SameOutcome(p) ==
    IF ret.res.ok THEN ~Failed(p) /\ Equal(heap, ret.res.val, p.heap, p.val)
    ELSE Failed(p)

\* C2: parsing serialize(v, 2) has the outcome of parsing serialize(v, 0);
\* where both succeed the trees are structurally equal, no whitespace of the
\* pretty text being part of a parsed string.  (The formula asks for the same
\* outcome only, so that a value whose two texts both fail to parse does not
\* violate it.)
PrettyAsCompact ==
    ret.op = "parse" /\ ret.self # nullptr /\ ret.arg = 2
        => SameOutcome(parse(Parser(serialize(heap, ret.self, 0, 0), heap, added)))

Accessors == {"asString", "asNumber", "asBoolean", "asArray", "asObject"}
\* The class an accessor asks for.
Requested(op) ==
    CASE op = "asString" -> "String"
      [] op = "asNumber" -> "Number"
      [] op = "asBoolean" -> "Boolean"
      [] op = "asArray" -> "Array"
      [] op = "asObject" -> "Object"
\* What a value holds: value_, or the container itself.
Payload(h, id) == IF h[id].type \in {"Array", "Object"} THEN id ELSE h[id].value_

\* C6: an accessor returns the payload of a value of the class it asks for
\* (asObject on an Object, asArray on an Array), and throws a TypeMismatch on
\* a value of any other class.
AccessorsMatchVariant ==
    ret.op \in Accessors =>
        IF heap[ret.self].type = Requested(ret.op)
        THEN ret.res.ok /\ ret.res.val = Payload(heap, ret.self)
        ELSE ~ret.res.ok /\ ErrorKind(ret.res.what) = "TypeMismatch"

\* The keys of the add calls adds, each where it was first added.
RECURSIVE FirstKeys(_)
FirstKeys(adds) ==
    IF adds = <<>> THEN <<>>
    ELSE LET ks == FirstKeys(SubSeq(adds, 1, Len(adds) - 1))
             k == adds[Len(adds)][1]
         IN  IF \E i \in DOMAIN ks : ks[i] = k THEN ks ELSE Append(ks, k)

\* The value of the most recent of the add calls adds for key k.
LastValue(adds, k) ==
    LET last == CHOOSE i \in DOMAIN adds :
                    /\ adds[i][1] = k
                    /\ \A j \in DOMAIN adds : adds[j][1] = k => j <= i
    IN  adds[last][2]

\* The members of a compact text: the keys ks in this order, each with the
\* text of the value last added for it.
RECURSIVE MembersText(_, _, _)
MembersText(h, adds, ks) ==
    IF ks = <<>> THEN <<>>
    ELSE <<"\"">> \o Head(ks) \o <<"\"", ":">>
         \o serialize(h, LastValue(adds, Head(ks)), 1, 0)
         \o (IF Tail(ks) = <<>> THEN <<>> ELSE <<",">>)
         \o MembersText(h, adds, Tail(ks))

\* C7: whatever add calls were made on an object, by a caller or by the
\* parser, its keys are unique and stand in the order of their first add,
\* get(k) is the value of the most recent add for k, and the serialization
\* lists the keys in that order, each once, with that value.
ObjectAddsKept ==
    \A o \in ObjectIds :
        /\ heap[o].keys_ = FirstKeys(added[o])
        /\ \A i, j \in DOMAIN heap[o].keys_ : i # j => heap[o].keys_[i] # heap[o].keys_[j]
        /\ \A i \in DOMAIN added[o] :
              JsonObject_get(heap[o], added[o][i][1]) = LastValue(added[o], added[o][i][1])
        /\ Acyclic(heap, o) =>
              serialize(heap, o, 0, 0)
                 = <<"{">> \o MembersText(heap, added[o], heap[o].keys_) \o <<"}">>

\* An object has two keys, and the first of them was added again, with
\* another value, after the second.
KeyReAdded ==
    \E o \in ObjectIds :
        /\ Len(heap[o].keys_) = 2
        /\ \E i, j, k \in DOMAIN added[o] :
              /\ i < j /\ j < k
              /\ added[o][i][1] = added[o][k][1]
              /\ added[o][i][1] # added[o][j][1]
              /\ added[o][i][2] # added[o][k][2]

\* Every place a value is held: container, slot and value.
AllSlots(h) ==
    UNION {{<<c, sl[1], sl[2]>> : sl \in Slots(h, c)} : c \in 1..Len(h)}
NoAliasing(h) == \A x, y \in AllSlots(h) : x[3] = y[3] => x = y
NoCycles(h) == \A c \in 1..Len(h) : c \notin Reach(h, Children(h, c))

\* C8: whatever add calls and parses were made, the values form a tree: no
\* value is held in two places and no container is reachable from itself.
ValuesFormTree == NoAliasing(heap) /\ NoCycles(heap)

\* C9: get(i) on an array that n add calls have filled throws
\* IndexOutOfRange for i >= n and returns the argument of add call i + 1 for
\* i < n, and after it the array holds what the add calls put there.
ArrayGetExact ==
    ret.op = "Array.get" =>
        /\ heap[ret.self].values_ = added[ret.self]
        /\ IF ret.arg >= Len(added[ret.self])
           THEN ~ret.res.ok /\ ErrorKind(ret.res.what) = "IndexOutOfRange"
           ELSE ret.res.ok /\ ret.res.val = added[ret.self][ret.arg + 1]

\* get(1) returned the second of two different elements.
ArrayGetSecond ==
    /\ ret.op = "Array.get"
    /\ ret.arg = 1
    /\ ret.res.ok
    /\ Len(added[ret.self]) = 2
    /\ added[ret.self][1] # added[ret.self][2]

====
